---- MODULE Spec2Model ----
(***************************************************************************)
(* Model of the Arcium remote client (ArciumAPIService) and of the HTTP    *)
(* gateway in front of it (ArciumAPIController).                           *)
(*                                                                         *)
(* One inbound request is followed from the gateway handler through the    *)
(* client operation and every remote call it awaits, to the gateway's      *)
(* response.  The remote network is the environment: every answer it can   *)
(* give to a call (a transport failure, a body without data, a well formed *)
(* body) and the time the call took are chosen nondeterministically.       *)
(* Time is in milliseconds, as in the source.                              *)
(***************************************************************************)
EXTENDS Integers, Sequences, FiniteSets, TLC

(***************************************************************************)
(* Program constants.                                                      *)
(***************************************************************************)
maxWaitTime == 300000

pollInterval == 5000

httpTimeout == 30000

defaultLimit == 50

(***************************************************************************)
(* Bounds of the model.                                                    *)
(***************************************************************************)
\* the first HistCap observed statuses of a poll loop are remembered
HistCap == 2

\* longest result array handed to the domain wrappers' unpacking
MaxLen == 4

(***************************************************************************)
(* JavaScript values.  Numbers are held in thousandths: 0.5 is JsNum(500)  *)
(* and the integer 50 is Num(50).                                          *)
(***************************************************************************)
Undefined == [type |-> "undefined"]

Null == [type |-> "null"]

JsNum(t) == [type |-> "number", milli |-> t]

Num(n) == JsNum(1000 * n)

JsBool(b) == [type |-> "boolean", b |-> b]

JsStr(s) == [type |-> "string", s |-> s]

JsArr(a) == [type |-> "array", items |-> a]

\* ToBoolean: the falsy values are undefined, null, 0, false and ""
Truthy(v) ==
    ~ (v = Undefined \/ v = Null \/ v = Num(0) \/ v = JsBool(FALSE) \/ v = JsStr(""))

\* a || d
Or(v, d) == IF Truthy(v) THEN v ELSE d

\* arr[i], zero based; reading past the end gives undefined
Index(arr, i) == IF i < Len(arr.items) THEN arr.items[i + 1] ELSE Undefined

\* whether v[i] can be evaluated at all: indexing undefined or null throws
Indexable(v) == v # Undefined /\ v # Null

\* `${v}` : a message is a sequence of text pieces
ToStr(v) == IF v.type = "string" THEN <<v.s>> ELSE <<v.type>>

Contains(msg, piece) == \E i \in 1..Len(msg) : msg[i] = piece

Return(v) == [kind |-> "return", value |-> v]

Throw(msg) == [kind |-> "throw", error |-> msg]

None == [kind |-> "none"]

\* no request of that kind was issued yet
NoResponse == [http |-> "none"]

(***************************************************************************)
(* What the remote network can answer.                                     *)
(***************************************************************************)
\* the time a call that got an answer took: the fastest and the slowest answer
\* the client's timeout lets through
Latencies == {0, httpTimeout - 1}

\* a call that fails was refused at once or ran into the timeout
FailLatencies == {0, httpTimeout}

Duration(r) == IF r.http = "error" THEN FailLatencies ELSE Latencies

GoodNode == [id |-> JsStr("mxe-1"), publicKey |-> JsStr("pk-1"), capacity |-> Num(100)]

OtherNode == [id |-> JsStr("mxe-2"), publicKey |-> JsStr("pk-2"), capacity |-> Num(0)]

KeylessNode == [id |-> JsStr("mxe-3"), publicKey |-> Undefined, capacity |-> Num(10)]

\* GET /api/v1/mxe/available
MxeResponses ==
    { [http |-> "error"], [http |-> "nodata"] }
    \cup { [http |-> "ok", list |-> l] :
             l \in { <<>>, <<GoodNode, OtherNode>>, <<KeylessNode>> } }

\* POST /api/v1/computations
SubmitResponses ==
    { [http |-> "error"], [http |-> "nodata"] }
    \cup { [http |-> "ok", computationId |-> c] :
             c \in { JsStr("cmp-1"), JsStr(""), Undefined } }

FullResult == JsArr(<<Num(72), JsBool(TRUE), Num(1000), JsNum(900)>>)

ShortResult == JsArr(<<Num(0), JsBool(TRUE)>>)

Results == { FullResult, ShortResult, JsArr(<<>>), Undefined }

RemoteErrors == { JsStr("bad input"), Undefined }

\* GET /api/v1/computations/{id}
StatusResponses ==
    { [http |-> "error"], [http |-> "nodata"] }
    \cup { [http |-> "ok", status |-> "pending", progress |-> Undefined,
            result |-> Undefined, error |-> Undefined] }
    \cup { [http |-> "ok", status |-> "processing", progress |-> Num(50),
            result |-> Undefined, error |-> Undefined] }
    \cup { [http |-> "ok", status |-> "completed", progress |-> Num(100),
            result |-> r, error |-> Undefined] : r \in Results }
    \cup { [http |-> "ok", status |-> "failed", progress |-> Num(50),
            result |-> Undefined, error |-> e] : e \in RemoteErrors }

(***************************************************************************)
(* State.                                                                  *)
(***************************************************************************)
VARIABLES
    pc,              \* where the request is
    endpoint,        \* the gateway route that was hit
    request,         \* the ArciumComputationRequest handed to the client
    now,             \* Date.now()
    startTime,       \* performEncryptedComputation's startTime
    pollStart,       \* waitForComputationCompletion's startTime
    mxeResponse,     \* the remote's answer to the node listing
    mxe,             \* the node getAvailableMXE returned, or Null
    submitResponse,  \* the remote's answer to the submission
    computationId,   \* what submitComputation returned
    statusResponse,  \* the remote's answer to the latest status request
    remoteResponse,  \* the remote's answer to a pass-through accessor's request
    hist,            \* the first HistCap statuses the poll loop observed
    calls,           \* remote requests issued, by kind, and client operations called
    compResult,      \* how performEncryptedComputation completed
    outcome,         \* how the client operation completed
    response         \* how the gateway handler completed

vars == <<pc, endpoint, request, now, startTime, pollStart, mxeResponse, mxe,
          submitResponse, computationId, statusResponse, remoteResponse, hist,
          calls, compResult, outcome, response>>

NoCalls == [client |-> 0, mxe |-> 0, submit |-> 0, status |-> 0, other |-> 0]

Init ==
    /\ pc = "idle"
    /\ endpoint = "none"
    /\ request = Undefined
    /\ now = 0
    /\ startTime = 0
    /\ pollStart = 0
    /\ mxeResponse = NoResponse
    /\ mxe = Null
    /\ submitResponse = NoResponse
    /\ computationId = Undefined
    /\ statusResponse = NoResponse
    /\ remoteResponse = NoResponse
    /\ hist = <<>>
    /\ calls = NoCalls
    /\ compResult = None
    /\ outcome = None
    /\ response = None

(***************************************************************************)
(* ArciumAPIService: the composite operation.                              *)
(***************************************************************************)
\* variant: the catch block rethrows
performEncryptedComputationRethrow(msg, t) == Throw(msg)

\* the catch block of performEncryptedComputation
performEncryptedComputationCatch(msg, t) ==
    Return([success |-> FALSE, error |-> msg, executionTime |-> t])

\* the value performEncryptedComputation returns after the wait
performEncryptedComputationResult(wr, id, t) ==
    Return([success |-> TRUE, result |-> wr.data, computationId |-> id,
            executionTime |-> t, gasUsed |-> Or(wr.gasUsed, Num(0))])

\* what getAvailableMXE returns for an answer of the remote
getAvailableMXEResult(r) ==
    IF r.http = "ok" /\ Len(r.list) > 0
    THEN [id |-> r.list[1].id, publicKey |-> r.list[1].publicKey,
          capacity |-> r.list[1].capacity]
    ELSE Null

\* variant: if (mxe === undefined)
MxeMissingUndefinedOnly(m) == m = Undefined

\* if (!mxe)
MxeMissing(m) == m = Null

\* encryptInputs: JSON.stringify(undefined) is undefined and cipher.update
\* rejects it, createCipher rejects a key that is no string, and a runtime
\* without crypto.createCipher rejects the call itself
encryptInputsResult(inputs, key, hasCreateCipher) ==
    IF hasCreateCipher /\ key.type = "string" /\ inputs # Undefined
    THEN Return([ciphertext |-> [cipher |-> "aes-256-cbc", key |-> key, data |-> inputs],
                 nonce |-> "randomBytes(16)", publicKey |-> "generateKeyPairSync"])
    ELSE Throw(<<"Input encryption failed">>)

\* variant: the identifier is returned without the check that it is there
submitComputationResultUnchecked(r) ==
    IF r.http = "ok"
    THEN Return(r.computationId)
    ELSE Throw(<<"Computation submission failed">>)

\* what submitComputation returns or throws for an answer of the remote
submitComputationResult(r) ==
    IF r.http = "ok" /\ Truthy(r.computationId)
    THEN Return(r.computationId)
    ELSE Throw(<<"Computation submission failed">>)

\* what getComputationStatus returns or throws for an answer of the remote
getComputationStatusResult(id, r) ==
    IF r.http = "ok"
    THEN Return([id |-> id, status |-> r.status, progress |-> Or(r.progress, Num(0)),
                 result |-> r.result, error |-> r.error])
    ELSE Throw(<<"Failed to retrieve computation status">>)

\* variant: the loop gives up one interval early
LoopContinuesShort(elapsed) == elapsed < maxWaitTime - pollInterval

\* while (Date.now() - startTime < maxWaitTime)
LoopContinues(elapsed) == elapsed < maxWaitTime

\* variant: a failed lookup is swallowed and polled again
PollDecisionRetry(st) ==
    IF st.kind = "throw" THEN "sleep"
    ELSE IF st.value.status = "completed" THEN "return"
    ELSE IF st.value.status = "failed" THEN "throw"
    ELSE "sleep"

\* the body of the poll loop, for what getComputationStatus gave
PollDecision(st) ==
    IF st.kind = "throw" THEN "throw"
    ELSE IF st.value.status = "completed" THEN "return"
    ELSE IF st.value.status = "failed" THEN "throw"
    ELSE "sleep"

\* variant: the remote error is left out of the message
PollErrorGeneric(st) ==
    IF st.kind = "throw" THEN st.error ELSE <<"Computation failed">>

\* the message of the error the poll loop throws
PollError(st) ==
    IF st.kind = "throw" THEN st.error
    ELSE <<"Computation failed: ">> \o ToStr(st.value.error)

\* variant: the wrong field of the snapshot is returned as the data
WaitResultWrongField(snapshot) == [data |-> snapshot.error, gasUsed |-> Num(0)]

\* the value the poll loop returns on 'completed'
WaitResult(snapshot) == [data |-> snapshot.result, gasUsed |-> Num(0)]

\* performEncryptedComputation completes with res and hands it to its caller:
\* the gateway for /compute, a domain wrapper otherwise
CompleteAt(ep, res) ==
    /\ compResult' = res
    /\ IF ep = "compute"
       THEN outcome' = res /\ pc' = "respond"
       ELSE outcome' = outcome /\ pc' = "unpack"

Complete(res) == CompleteAt(endpoint, res)

\* performEncryptedComputation is entered: startTime = Date.now(), then the
\* log line reads request.functionName, which throws when there is no request
Enter(ep, req) ==
    /\ endpoint' = ep
    /\ request' = req
    /\ startTime' = now
    /\ calls' = [calls EXCEPT !.client = @ + 1]
    /\ IF req = Null
       THEN CompleteAt(ep, performEncryptedComputationCatch(
                <<"Cannot read properties of null (reading 'functionName')">>, 0))
       ELSE pc' = "mxe" /\ UNCHANGED <<compResult, outcome>>
    /\ UNCHANGED <<now, pollStart, mxeResponse, mxe, submitResponse, computationId,
                   statusResponse, remoteResponse, hist, response>>

\* Step 1: the node listing, and the throw when there is no node
getAvailableMXE ==
    /\ pc = "mxe"
    /\ \E r \in MxeResponses : \E d \in Duration(r) :
         /\ mxeResponse' = r
         /\ now' = now + d
         /\ mxe' = getAvailableMXEResult(r)
         /\ calls' = [calls EXCEPT !.mxe = @ + 1]
         /\ IF MxeMissing(getAvailableMXEResult(r))
            THEN Complete(performEncryptedComputationCatch(
                              <<"No available MXE found">>, now + d - startTime))
            ELSE pc' = "encrypt" /\ UNCHANGED <<compResult, outcome>>
    /\ UNCHANGED <<endpoint, request, startTime, pollStart, submitResponse,
                   computationId, statusResponse, remoteResponse, hist, response>>

\* Step 2: mxe.publicKey is read, then the inputs are encrypted
encryptInputs ==
    /\ pc = "encrypt"
    /\ \E hasCreateCipher \in BOOLEAN :
         LET enc == IF mxe = Null
                    THEN Throw(<<"Cannot read properties of null (reading 'publicKey')">>)
                    ELSE encryptInputsResult(request.inputs, mxe.publicKey, hasCreateCipher)
         IN IF enc.kind = "throw"
            THEN Complete(performEncryptedComputationCatch(enc.error, now - startTime))
            ELSE pc' = "submit" /\ UNCHANGED <<compResult, outcome>>
    /\ UNCHANGED <<endpoint, request, now, startTime, pollStart, mxeResponse, mxe,
                   submitResponse, computationId, statusResponse, remoteResponse, hist, calls,
                   response>>

\* Step 3: the submission; the wait starts as soon as it returned
submitComputation ==
    /\ pc = "submit"
    /\ \E r \in SubmitResponses : \E d \in Duration(r) :
         LET sub == submitComputationResult(r)
         IN /\ submitResponse' = r
            /\ now' = now + d
            /\ calls' = [calls EXCEPT !.submit = @ + 1]
            /\ IF sub.kind = "throw"
               THEN /\ Complete(performEncryptedComputationCatch(sub.error, now + d - startTime))
                    /\ UNCHANGED <<computationId, pollStart>>
               ELSE /\ computationId' = sub.value
                    /\ pollStart' = now + d
                    /\ pc' = "poll"
                    /\ UNCHANGED <<compResult, outcome>>
    /\ UNCHANGED <<endpoint, request, startTime, mxeResponse, mxe, statusResponse,
                   remoteResponse, hist, response>>

Observed(r) == IF r.http = "ok" THEN r.status ELSE r.http

\* Step 4, one iteration of the poll loop up to its return, throw or sleep
waitForComputationCompletion ==
    /\ pc = "poll"
    /\ LoopContinues(now - pollStart)
    /\ \E r \in StatusResponses : \E d \in Duration(r) :
         LET st == getComputationStatusResult(computationId, r)
             t == now + d - startTime
         IN /\ statusResponse' = r
            /\ now' = now + d
            /\ calls' = [calls EXCEPT !.status = @ + 1]
            /\ hist' = IF Len(hist) < HistCap THEN Append(hist, Observed(r)) ELSE hist
            /\ CASE PollDecision(st) = "return" ->
                      Complete(performEncryptedComputationResult(
                                   WaitResult(st.value), computationId, t))
                 [] PollDecision(st) = "throw" ->
                      Complete(performEncryptedComputationCatch(PollError(st), t))
                 [] OTHER -> pc' = "sleep" /\ UNCHANGED <<compResult, outcome>>
    /\ UNCHANGED <<endpoint, request, startTime, pollStart, mxeResponse, mxe,
                   submitResponse, computationId, remoteResponse, response>>

\* await new Promise((resolve) => setTimeout(resolve, pollInterval))
pollSleep ==
    /\ pc = "sleep"
    /\ now' = now + pollInterval
    /\ pc' = "poll"
    /\ UNCHANGED <<endpoint, request, startTime, pollStart, mxeResponse, mxe,
                   submitResponse, computationId, statusResponse, remoteResponse,
                   hist, calls, compResult, outcome, response>>

\* the loop condition fails: throw new Error('Computation timeout')
pollTimeout ==
    /\ pc = "poll"
    /\ ~ LoopContinues(now - pollStart)
    /\ Complete(performEncryptedComputationCatch(<<"Computation timeout">>, now - startTime))
    /\ UNCHANGED <<endpoint, request, now, startTime, pollStart, mxeResponse, mxe,
                   submitResponse, computationId, statusResponse, remoteResponse, hist, calls,
                   response>>

(***************************************************************************)
(* ArciumAPIService: the domain wrappers.                                  *)
(***************************************************************************)
\* variant: result.result[i] ?? default, which keeps 0 and false
RiskAssessmentFieldsNullish(arr) ==
    LET Coalesce(v, d) == IF v = Undefined \/ v = Null THEN d ELSE v
    IN [riskScore |-> Coalesce(Index(arr, 0), Num(50)),
        approved |-> Coalesce(Index(arr, 1), JsBool(FALSE)),
        maxAmount |-> Coalesce(Index(arr, 2), Num(0)),
        confidence |-> Coalesce(Index(arr, 3), JsNum(500))]

\* result.result[i] || default, for the four fields of a risk assessment
RiskAssessmentFields(arr) ==
    [riskScore |-> Or(Index(arr, 0), Num(50)),
     approved |-> Or(Index(arr, 1), JsBool(FALSE)),
     maxAmount |-> Or(Index(arr, 2), Num(0)),
     confidence |-> Or(Index(arr, 3), JsNum(500))]

CollateralValidationFields(arr) ==
    [valid |-> Or(Index(arr, 0), JsBool(FALSE)),
     ratio |-> Or(Index(arr, 1), Num(0)),
     requiredRatio |-> Or(Index(arr, 2), JsNum(1500))]

InterestCalculationFields(arr) ==
    [interest |-> Or(Index(arr, 0), Num(0)),
     totalAmount |-> Or(Index(arr, 1), Num(0)),
     monthlyPayment |-> Or(Index(arr, 2), Num(0))]

WrapperFields(ep, arr) ==
    CASE ep = "risk-assessment" -> RiskAssessmentFields(arr)
      [] ep = "collateral-validation" -> CollateralValidationFields(arr)
      [] OTHER -> InterestCalculationFields(arr)

WrapperErrorPrefix(ep) ==
    CASE ep = "risk-assessment" -> "Risk assessment failed: "
      [] ep = "collateral-validation" -> "Collateral validation failed: "
      [] OTHER -> "Interest calculation failed: "

\* what a wrapper does with the ComputationResult: throw the named error when
\* it reports failure, else unpack; reading [0] of a missing result throws
WrapperResult(ep, res) ==
    IF res.kind = "throw" THEN res
    ELSE IF ~ res.value.success
    THEN Throw(<<WrapperErrorPrefix(ep)>> \o res.value.error)
    ELSE IF ~ Indexable(res.value.result)
    THEN Throw(<<"Cannot read properties of undefined (reading '0')">>)
    ELSE Return(WrapperFields(ep, res.value.result))

Unpack(ep) ==
    /\ outcome' = WrapperResult(ep, compResult)
    /\ pc' = "respond"
    /\ UNCHANGED <<endpoint, request, now, startTime, pollStart, mxeResponse, mxe,
                   submitResponse, computationId, statusResponse, remoteResponse,
                   hist, calls, compResult, response>>

performEncryptedRiskAssessment ==
    /\ pc = "unpack"
    /\ endpoint = "risk-assessment"
    /\ Unpack("risk-assessment")

performEncryptedCollateralValidation ==
    /\ pc = "unpack"
    /\ endpoint = "collateral-validation"
    /\ Unpack("collateral-validation")

performEncryptedInterestCalculation ==
    /\ pc = "unpack"
    /\ endpoint = "interest-calculation"
    /\ Unpack("interest-calculation")

(***************************************************************************)
(* ArciumAPIService: the pass-through accessors.                           *)
(***************************************************************************)
FullNetwork ==
    [connected |-> JsBool(TRUE), activeNodes |-> Num(12), averageLatency |-> Num(40),
     health |-> JsStr("healthy"), mxeCount |-> Num(3), totalComputations |-> Num(700)]

PartialNetwork ==
    [connected |-> Undefined, activeNodes |-> Num(0), averageLatency |-> Undefined,
     health |-> Undefined, mxeCount |-> Num(3), totalComputations |-> Undefined]

\* GET /api/v1/network/status
NetworkResponses ==
    { [http |-> "error"], [http |-> "nodata"] }
    \cup { [http |-> "ok", data |-> d] : d \in { FullNetwork, PartialNetwork } }

\* the value of getNetworkStatus's catch block
NetworkStatusDefault ==
    [connected |-> JsBool(FALSE), activeNodes |-> Num(0), averageLatency |-> Num(0),
     networkHealth |-> JsStr("error"), mxeCount |-> Num(0), totalComputations |-> Num(0)]

\* variant: the failure is thrown, as getComputationStatus does
getNetworkStatusResultPropagates(r) ==
    IF r.http = "ok"
    THEN Return([connected |-> Or(r.data.connected, JsBool(FALSE)),
                 activeNodes |-> Or(r.data.activeNodes, Num(0)),
                 averageLatency |-> Or(r.data.averageLatency, Num(0)),
                 networkHealth |-> Or(r.data.health, JsStr("unknown")),
                 mxeCount |-> Or(r.data.mxeCount, Num(0)),
                 totalComputations |-> Or(r.data.totalComputations, Num(0))])
    ELSE Throw(<<"Failed to get network status">>)

getNetworkStatusResult(r) ==
    IF r.http = "ok"
    THEN Return([connected |-> Or(r.data.connected, JsBool(FALSE)),
                 activeNodes |-> Or(r.data.activeNodes, Num(0)),
                 averageLatency |-> Or(r.data.averageLatency, Num(0)),
                 networkHealth |-> Or(r.data.health, JsStr("unknown")),
                 mxeCount |-> Or(r.data.mxeCount, Num(0)),
                 totalComputations |-> Or(r.data.totalComputations, Num(0))])
    ELSE Return(NetworkStatusDefault)

\* GET /api/v1/computations?limit=
HistoryResponses ==
    { [http |-> "error"], [http |-> "nodata"] }
    \cup { [http |-> "ok", data |-> JsArr(l)] : l \in { <<>>, <<JsStr("cmp-1")>> } }

\* response.data || [] , and [] from the catch block
getComputationHistoryResult(r) ==
    IF r.http = "ok" THEN Return(Or(r.data, JsArr(<<>>))) ELSE Return(JsArr(<<>>))

\* limit: number = 50
EffectiveLimit(limit) == IF limit = Undefined THEN Num(defaultLimit) ELSE limit

FullEstimate ==
    [estimatedGas |-> Num(42000), estimatedCost |-> JsNum(7), estimatedTime |-> Num(250)]

PartialEstimate ==
    [estimatedGas |-> Num(0), estimatedCost |-> Undefined, estimatedTime |-> Num(250)]

\* POST /api/v1/computations/estimate
EstimateResponses ==
    { [http |-> "error"], [http |-> "nodata"] }
    \cup { [http |-> "ok", data |-> d] : d \in { FullEstimate, PartialEstimate } }

\* the value of estimateComputationCost's catch block
CostDefault ==
    [estimatedGas |-> Num(100000), estimatedCost |-> JsNum(1), estimatedTime |-> Num(1000)]

estimateComputationCostResult(r) ==
    IF r.http = "ok"
    THEN Return([estimatedGas |-> Or(r.data.estimatedGas, Num(100000)),
                 estimatedCost |-> Or(r.data.estimatedCost, JsNum(1)),
                 estimatedTime |-> Or(r.data.estimatedTime, Num(1000))])
    ELSE Return(CostDefault)

\* GET /api/v1/health: any 2xx status resolves, everything else rejects
HealthResponses ==
    { [http |-> "error"] } \cup { [http |-> "ok", status |-> c] : c \in { 200, 204 } }

healthCheckResult(r) ==
    IF r.http = "ok" THEN Return(JsBool(r.status = 200)) ELSE Return(JsBool(FALSE))

\* GET /api/v1/functions
FunctionsResponses ==
    { [http |-> "error"], [http |-> "nodata"] }
    \cup { [http |-> "ok", data |-> JsArr(l)] :
             l \in { <<>>, <<JsStr("riskAssessment"), JsStr("creditScore")>> } }

\* the list in getAvailableFunctions's catch block
FunctionsDefault ==
    JsArr(<<JsStr("riskAssessment"), JsStr("collateralValidation"),
            JsStr("interestCalculation")>>)

getAvailableFunctionsResult(r) ==
    IF r.http = "ok" THEN Return(Or(r.data, JsArr(<<>>))) ELSE Return(FunctionsDefault)

\* an accessor issues its one request; answers pairs each answer of the
\* remote with how the accessor completes on it
Access(answers) ==
    /\ \E a \in answers : \E d \in Duration(a[1]) :
         /\ remoteResponse' = a[1]
         /\ now' = now + d
         /\ outcome' = a[2]
    /\ calls' = [calls EXCEPT !.other = @ + 1]
    /\ pc' = "respond"
    /\ UNCHANGED <<endpoint, request, startTime, pollStart, mxeResponse, mxe,
                   submitResponse, computationId, statusResponse, hist, compResult,
                   response>>

getNetworkStatus ==
    /\ pc = "call"
    /\ endpoint = "network-status"
    /\ Access({ <<r, getNetworkStatusResult(r)>> : r \in NetworkResponses })

getComputationHistory ==
    /\ pc = "call"
    /\ endpoint = "computation-history"
    /\ Access({ <<r, getComputationHistoryResult(r)>> : r \in HistoryResponses })

getAvailableFunctions ==
    /\ pc = "call"
    /\ endpoint = "functions"
    /\ Access({ <<r, getAvailableFunctionsResult(r)>> : r \in FunctionsResponses })

healthCheck ==
    /\ pc = "call"
    /\ endpoint = "health"
    /\ Access({ <<r, healthCheckResult(r)>> : r \in HealthResponses })

\* request.inputs.length is read before the request is sent: without a request
\* or without inputs the catch block answers and nothing is sent
estimateComputationCost ==
    /\ pc = "call"
    /\ endpoint = "estimate-cost"
    /\ IF request = Null \/ request.inputs = Undefined
       THEN /\ outcome' = Return(CostDefault)
            /\ UNCHANGED <<remoteResponse, now, calls>>
       ELSE \E r \in EstimateResponses : \E d \in Duration(r) :
              /\ remoteResponse' = r
              /\ now' = now + d
              /\ outcome' = estimateComputationCostResult(r)
              /\ calls' = [calls EXCEPT !.other = @ + 1]
    /\ pc' = "respond"
    /\ UNCHANGED <<endpoint, request, startTime, pollStart, mxeResponse, mxe,
                   submitResponse, computationId, statusResponse, hist, compResult,
                   response>>

\* the status lookup called directly: a failure is thrown to the caller
getComputationStatus ==
    /\ pc = "call"
    /\ endpoint = "computation"
    /\ \E r \in StatusResponses : \E d \in Duration(r) :
         /\ statusResponse' = r
         /\ now' = now + d
         /\ outcome' = getComputationStatusResult(request.computationId, r)
    /\ calls' = [calls EXCEPT !.status = @ + 1]
    /\ pc' = "respond"
    /\ UNCHANGED <<endpoint, request, startTime, pollStart, mxeResponse, mxe,
                   submitResponse, computationId, remoteResponse, hist, compResult,
                   response>>

(***************************************************************************)
(* ArciumAPIController: the gateway handlers.                              *)
(***************************************************************************)
\* the bodies POSTed to /compute and /estimate-cost: a request, {} and null
ComputeBodies ==
    { [functionName |-> JsStr("riskAssessment"), inputs |-> JsArr(<<Num(10)>>),
       metadata |-> Undefined],
      [functionName |-> Undefined, inputs |-> Undefined, metadata |-> Undefined],
      Null }

WrapperRequest(name, inputs, type) ==
    [functionName |-> JsStr(name), inputs |-> JsArr(inputs), metadata |-> JsStr(type)]

\* a handler calls a pass-through accessor
Call(ep, req) ==
    /\ pc' = "call"
    /\ endpoint' = ep
    /\ request' = req
    /\ calls' = [calls EXCEPT !.client = @ + 1]
    /\ UNCHANGED <<now, startTime, pollStart, mxeResponse, mxe, submitResponse,
                   computationId, statusResponse, remoteResponse, hist, compResult,
                   outcome, response>>

controller_performEncryptedComputation ==
    /\ pc = "idle"
    /\ \E b \in ComputeBodies : Enter("compute", b)

controller_performEncryptedRiskAssessment ==
    /\ pc = "idle"
    /\ Enter("risk-assessment",
             WrapperRequest("riskAssessment", <<JsStr("encrypted-params")>>,
                            "risk_assessment"))

controller_performEncryptedCollateralValidation ==
    /\ pc = "idle"
    /\ Enter("collateral-validation",
             WrapperRequest("collateralValidation", <<Num(1500), Num(1000)>>,
                            "collateral_validation"))

controller_performEncryptedInterestCalculation ==
    /\ pc = "idle"
    /\ Enter("interest-calculation",
             WrapperRequest("interestCalculation", <<Num(1000), JsNum(50), Num(12)>>,
                            "interest_calculation"))

controller_getComputationStatus ==
    /\ pc = "idle"
    /\ Call("computation", [computationId |-> JsStr("cmp-1")])

controller_getNetworkStatus ==
    /\ pc = "idle"
    /\ Call("network-status", Undefined)

controller_getComputationHistory ==
    /\ pc = "idle"
    /\ \E limit \in { Undefined, JsStr("5") } :
         Call("computation-history", [limit |-> EffectiveLimit(limit)])

controller_estimateComputationCost ==
    /\ pc = "idle"
    /\ \E b \in ComputeBodies : Call("estimate-cost", b)

controller_getAvailableFunctions ==
    /\ pc = "idle"
    /\ Call("functions", Undefined)

controller_healthCheck ==
    /\ pc = "idle"
    /\ Call("health", Undefined)

\* variant: every result is wrapped in an envelope
GatewayResponseEnvelope(ep, out) ==
    IF out.kind = "return" THEN Return([data |-> out.value]) ELSE out

\* what the handler of route ep answers when the client operation completed
\* with out: its result, or for /health the object { healthy }
GatewayResponse(ep, out) ==
    IF ep = "health" /\ out.kind = "return"
    THEN Return([healthy |-> out.value])
    ELSE out

respond ==
    /\ pc = "respond"
    /\ response' = GatewayResponse(endpoint, outcome)
    /\ pc' = "done"
    /\ UNCHANGED <<endpoint, request, now, startTime, pollStart, mxeResponse, mxe,
                   submitResponse, computationId, statusResponse, remoteResponse,
                   hist, calls, compResult, outcome>>

Next ==
    \/ controller_performEncryptedComputation
    \/ controller_performEncryptedRiskAssessment
    \/ controller_performEncryptedCollateralValidation
    \/ controller_performEncryptedInterestCalculation
    \/ controller_getComputationStatus
    \/ controller_getNetworkStatus
    \/ controller_getComputationHistory
    \/ controller_estimateComputationCost
    \/ controller_getAvailableFunctions
    \/ controller_healthCheck
    \/ getAvailableMXE
    \/ encryptInputs
    \/ submitComputation
    \/ waitForComputationCompletion
    \/ pollSleep
    \/ pollTimeout
    \/ performEncryptedRiskAssessment
    \/ performEncryptedCollateralValidation
    \/ performEncryptedInterestCalculation
    \/ getComputationStatus
    \/ getNetworkStatus
    \/ getComputationHistory
    \/ estimateComputationCost
    \/ getAvailableFunctions
    \/ healthCheck
    \/ respond

Spec == Init /\ [][Next]_vars

(***************************************************************************)
(* The wrappers' unpacking on its own: performEncryptedComputation has just *)
(* returned a successful result whose payload is any array of at most      *)
(* MaxLen values, and a wrapper unpacks it.                                *)
(***************************************************************************)
UnpackValues ==
    { Undefined, Null, Num(0), Num(72), JsNum(900), JsBool(FALSE), JsBool(TRUE) }

RECURSIVE Arrays(_)
Arrays(n) ==
    IF n = 0 THEN { <<>> }
    ELSE Arrays(n - 1)
         \cup { Append(a, v) : a \in { b \in Arrays(n - 1) : Len(b) = n - 1 },
                               v \in UnpackValues }

CompletedWith(arr) ==
    [http |-> "ok", status |-> "completed", progress |-> Num(100),
     result |-> JsArr(arr), error |-> Undefined]

InitUnpack ==
    /\ pc = "unpack"
    /\ endpoint \in { "risk-assessment", "collateral-validation", "interest-calculation" }
    /\ request = WrapperRequest("wrapper", <<>>, "wrapper")
    /\ now = 0
    /\ startTime = 0
    /\ pollStart = 0
    /\ mxeResponse = [http |-> "ok", list |-> <<GoodNode>>]
    /\ mxe = GoodNode
    /\ submitResponse = [http |-> "ok", computationId |-> JsStr("cmp-1")]
    /\ computationId = JsStr("cmp-1")
    /\ \E arr \in Arrays(MaxLen) :
         /\ statusResponse = CompletedWith(arr)
         /\ compResult = performEncryptedComputationResult(
                             WaitResult(CompletedWith(arr)), JsStr("cmp-1"), 0)
    /\ remoteResponse = NoResponse
    /\ hist = <<"completed">>
    /\ calls = [client |-> 1, mxe |-> 1, submit |-> 1, status |-> 1, other |-> 0]
    /\ outcome = None
    /\ response = None

NextUnpack ==
    \/ performEncryptedRiskAssessment
    \/ performEncryptedCollateralValidation
    \/ performEncryptedInterestCalculation
    \/ respond

SpecUnpack == InitUnpack /\ [][NextUnpack]_vars

(***************************************************************************)
(* Properties.                                                             *)
(***************************************************************************)
CompositeEndpoints ==
    { "compute", "risk-assessment", "collateral-validation", "interest-calculation" }

\* the request runs performEncryptedComputation
Composite == endpoint \in CompositeEndpoints

\* performEncryptedComputation has completed
Computed == compResult # None

\* the remote listed no node, or the listing failed
NoNode ==
    /\ mxeResponse # NoResponse
    /\ IF mxeResponse.http = "ok" THEN Len(mxeResponse.list) = 0 ELSE TRUE

\* the inputs or the node's key cannot be encrypted with
EncryptionFails ==
    /\ mxeResponse.http = "ok"
    /\ Len(mxeResponse.list) > 0
    /\ (request.inputs = Undefined \/ mxeResponse.list[1].publicKey.type # "string")

\* the submission failed or its answer carries no identifier
SubmissionFails ==
    /\ submitResponse # NoResponse
    /\ IF submitResponse.http = "ok"
       THEN submitResponse.computationId \in { Undefined, Null, JsStr("") }
       ELSE TRUE

\* the submission returned an identifier, so polling began
PollingBegan ==
    /\ submitResponse.http = "ok"
    /\ submitResponse.computationId \notin { Undefined, Null, JsStr("") }

\* the latest status request could not be answered
LookupFailed == statusResponse.http \in { "error", "nodata" }

LastStatus(s) == statusResponse.http = "ok" /\ statusResponse.status = s

\* the latest status request ended the polling
Terminated == LookupFailed \/ LastStatus("completed") \/ LastStatus("failed")

\* the poll loop ran out of time: it ended although no poll was terminal
PollTimedOut == Computed /\ PollingBegan /\ ~ Terminated

\* there is no request to read the function name from
RequestMissing == request = Null

StepFailed ==
    RequestMissing \/ NoNode \/ EncryptionFails \/ SubmissionFails \/ LookupFailed
    \/ LastStatus("failed") \/ PollTimedOut

\* C1: performEncryptedComputation never raises: it always completes by
\* returning, and when node discovery, encryption, submission, a status lookup
\* or the computation failed, or the polling timed out, what it returns has
\* success = false, an error message and the elapsed executionTime; the
\* /compute handler therefore answers with a result too.
C1_NeverRaises ==
    (Composite /\ Computed) =>
        /\ compResult.kind = "return"
        /\ StepFailed =>
             /\ compResult.value.success = FALSE
             /\ Len(compResult.value.error) > 0
             /\ compResult.value.executionTime = now - startTime
             /\ compResult.value.executionTime >= 0
        /\ (endpoint = "compute" /\ pc = "done") => response.kind = "return"

\* the second status lookup of a /compute request failed and the handler
\* answered with the failed result
C1_Witness ==
    /\ endpoint = "compute"
    /\ pc = "done"
    /\ LookupFailed
    /\ calls.status = 2
    /\ response.value.success = FALSE
    /\ response.value.error = <<"Failed to retrieve computation status">>

\* C2 as amended: when no poll is terminal the call fails with
\* 'Computation timeout' no earlier than maxWaitTime after polling began, and
\* less than maxWaitTime + the per-call timeout + pollInterval after it: the
\* ceiling is tested only before a status request, so the last iteration may
\* start just below the ceiling and still take a whole request and a sleep.
C2_TimeoutWindow ==
    (Composite /\ PollTimedOut) =>
        /\ compResult.kind = "return"
        /\ compResult.value.success = FALSE
        /\ compResult.value.error = <<"Computation timeout">>
        /\ now - pollStart >= maxWaitTime
        /\ now - pollStart < maxWaitTime + httpTimeout + pollInterval

\* C2 as claimed: the timeout is returned between maxWaitTime and
\* maxWaitTime + pollInterval after polling began.
C2_WithinOneInterval ==
    (Composite /\ PollTimedOut) =>
        /\ compResult.value.error = <<"Computation timeout">>
        /\ now - pollStart >= maxWaitTime
        /\ now - pollStart <= maxWaitTime + pollInterval

\* a timeout returned later than one poll interval after the ceiling
C2_Witness ==
    /\ endpoint = "compute"
    /\ pc = "done"
    /\ PollTimedOut
    /\ response.value.error = <<"Computation timeout">>
    /\ now - pollStart > maxWaitTime + pollInterval

\* the polls of this call were pending, then processing, then completed
PendingProcessingCompleted ==
    /\ Composite
    /\ Computed
    /\ PollingBegan
    /\ calls.status = 3
    /\ Len(hist) >= 2
    /\ hist[1] = "pending"
    /\ hist[2] = "processing"
    /\ LastStatus("completed")

\* C3: after the status sequence pending, processing, completed the call
\* returns before maxWaitTime has elapsed since polling began, with
\* success = true, the result of the completed snapshot and the identifier
\* the submission returned.
C3_CompletedResult ==
    PendingProcessingCompleted =>
        /\ compResult.kind = "return"
        /\ compResult.value.success = TRUE
        /\ compResult.value.result = statusResponse.result
        /\ compResult.value.computationId = submitResponse.computationId
        /\ now - pollStart < maxWaitTime

\* pending, processing, completed with slow answers, returned by /compute
C3_Witness ==
    /\ PendingProcessingCompleted
    /\ endpoint = "compute"
    /\ pc = "done"
    /\ statusResponse.result = FullResult
    /\ response.value.result = FullResult
    /\ now - pollStart > 2 * pollInterval

\* C4: when a poll returns 'failed' with the remote error message e, the call
\* returns success = false and an error message that contains e.
C4_FailedCarriesRemoteError ==
    (Composite /\ Computed /\ LastStatus("failed") /\ statusResponse.error.type = "string") =>
        /\ compResult.kind = "return"
        /\ compResult.value.success = FALSE
        /\ Contains(compResult.value.error, statusResponse.error.s)

\* a poll returned failed with "bad input" and /compute answered
C4_Witness ==
    /\ endpoint = "compute"
    /\ pc = "done"
    /\ LastStatus("failed")
    /\ statusResponse.error = JsStr("bad input")
    /\ response.value.error = <<"Computation failed: ", "bad input">>

\* C5: when the remote list of execution nodes is empty, the call returns
\* success = false with the error exactly "No available MXE found" and an
\* executionTime >= 0, and does not throw.
C5_NoNodeResult ==
    (Composite /\ mxeResponse = [http |-> "ok", list |-> <<>>]) =>
        /\ compResult.kind = "return"
        /\ compResult.value.success = FALSE
        /\ compResult.value.error = <<"No available MXE found">>
        /\ compResult.value.executionTime >= 0

\* a riskAssessment request met an empty node list after a slow listing
C5_Witness ==
    /\ endpoint = "compute"
    /\ pc = "done"
    /\ mxeResponse = [http |-> "ok", list |-> <<>>]
    /\ request.functionName = JsStr("riskAssessment")
    /\ response.value.error = <<"No available MXE found">>
    /\ response.value.executionTime > 0

\* the accessor of route ep completed after its request failed
AccessFailed(ep) ==
    /\ endpoint = ep
    /\ pc \in { "respond", "done" }
    /\ remoteResponse.http = "error"

\* C6: on a transport or remote failure getNetworkStatus returns the fixed
\* zero/disconnected status, getComputationHistory the empty list,
\* estimateComputationCost the fixed estimate, getAvailableFunctions the three
\* hardcoded names and healthCheck false; none of them throws.
C6_SwallowAndDefault ==
    /\ AccessFailed("network-status") =>
         outcome = [kind |-> "return",
                    value |-> [connected |-> JsBool(FALSE), activeNodes |-> Num(0),
                               averageLatency |-> Num(0), networkHealth |-> JsStr("error"),
                               mxeCount |-> Num(0), totalComputations |-> Num(0)]]
    /\ AccessFailed("computation-history") =>
         outcome = [kind |-> "return", value |-> JsArr(<<>>)]
    /\ AccessFailed("estimate-cost") =>
         outcome = [kind |-> "return",
                    value |-> [estimatedGas |-> Num(100000), estimatedCost |-> JsNum(1),
                               estimatedTime |-> Num(1000)]]
    /\ AccessFailed("functions") =>
         outcome = [kind |-> "return",
                    value |-> JsArr(<<JsStr("riskAssessment"), JsStr("collateralValidation"),
                                      JsStr("interestCalculation")>>)]
    /\ AccessFailed("health") =>
         outcome = [kind |-> "return", value |-> JsBool(FALSE)]

\* the network status request timed out and the default was answered
C6_Witness ==
    /\ AccessFailed("network-status")
    /\ pc = "done"
    /\ now = httpTimeout
    /\ response.value.connected = JsBool(FALSE)

FalsyValues == { Undefined, Null, Num(0), JsBool(FALSE), JsStr("") }

\* performEncryptedRiskAssessment has unpacked a successful result whose
\* array has fewer than 4 entries
RiskUnpackedShort ==
    /\ endpoint = "risk-assessment"
    /\ pc \in { "respond", "done" }
    /\ compResult.kind = "return"
    /\ compResult.value.success = TRUE
    /\ compResult.value.result.type = "array"
    /\ Len(compResult.value.result.items) < 4

\* position i (from 1) of the result array, where it is present and truthy,
\* and the default d otherwise
PresentOrDefault(i, d) ==
    LET items == compResult.value.result.items
    IN IF i <= Len(items) /\ items[i] \notin FalsyValues THEN items[i] ELSE d

\* C7 as amended: for a successful computation whose result array has fewer
\* than 4 entries, performEncryptedRiskAssessment gives each field the value
\* at its position when that value is present and truthy, and otherwise its
\* default (risk score 50, approved false, max amount 0, confidence 0.5): a
\* missing position and a present falsy value (0, false, null, "") alike.
C7_TruthyOrDefault ==
    RiskUnpackedShort =>
        /\ outcome.kind = "return"
        /\ outcome.value.riskScore = PresentOrDefault(1, Num(50))
        /\ outcome.value.approved = PresentOrDefault(2, JsBool(FALSE))
        /\ outcome.value.maxAmount = PresentOrDefault(3, Num(0))
        /\ outcome.value.confidence = PresentOrDefault(4, JsNum(500))

\* position i (from 1) of the result array where it is present, and the
\* default d where it is missing
KeptOrDefault(i, d) ==
    LET items == compResult.value.result.items
    IN IF i <= Len(items) THEN items[i] ELSE d

\* C7 as claimed: missing positions get their default and present positions
\* keep the value of the result array.
C7_PresentKept ==
    RiskUnpackedShort =>
        /\ outcome.kind = "return"
        /\ outcome.value.riskScore = KeptOrDefault(1, Num(50))
        /\ outcome.value.approved = KeptOrDefault(2, JsBool(FALSE))
        /\ outcome.value.maxAmount = KeptOrDefault(3, Num(0))
        /\ outcome.value.confidence = KeptOrDefault(4, JsNum(500))

\* the result [0, true] was unpacked: a present 0, a present true, two missing
C7_Witness ==
    /\ RiskUnpackedShort
    /\ pc = "done"
    /\ compResult.value.result = JsArr(<<Num(0), JsBool(TRUE)>>)
    /\ response.value = [riskScore |-> Num(50), approved |-> JsBool(TRUE),
                         maxAmount |-> Num(0), confidence |-> JsNum(500)]

C9_PollOnlyAfterIdentifier ==
    Composite =>
        /\ calls.status > 0 =>
             (PollingBegan /\ computationId = submitResponse.computationId)
        /\ SubmissionFails =>
             /\ compResult.kind = "return"
             /\ compResult.value.success = FALSE
             /\ compResult.value.error = <<"Computation submission failed">>
             /\ calls.status = 0
        /\ calls.submit > 0 => ~ NoNode
        /\ NoNode => (calls.submit = 0 /\ calls.status = 0)

\* the submission was answered without an identifier: one listing, one
\* submission, no poll
C9_Witness ==
    /\ endpoint = "compute"
    /\ pc = "done"
    /\ submitResponse = [http |-> "ok", computationId |-> Undefined]
    /\ calls = [client |-> 1, mxe |-> 1, submit |-> 1, status |-> 0, other |-> 0]
    /\ response.value.error = <<"Computation submission failed">>

\* C10: within one call, a status request follows only a poll that observed a
\* non-terminal status: after 'completed', 'failed' or a failed lookup no
\* further status request is issued, nor any remote request once the call
\* has completed; the node listing and the submission are issued at most once.
C10_NoRetry ==
    [][ Composite' =>
          /\ (calls'.status # calls.status) =>
               (calls.status = 0 \/ (~ Terminated /\ ~ Computed))
          /\ Computed => calls' = calls
          /\ calls'.mxe <= 1
          /\ calls'.submit <= 1 ]_vars

\* two re-polls after non-terminal statuses, then a failed lookup ended the call
C10_Witness ==
    /\ Composite
    /\ pc = "done"
    /\ LookupFailed
    /\ calls.status = 3
    /\ hist[1] = "pending"
    /\ hist[2] = "processing"

====
